---- MODULE Spec2Model ----
(***************************************************************************)
(* State-machine model of the SmallBizInventory store (Inventory.cpp), the *)
(* product records it owns (Product.cpp, PhysicalProduct.cpp,              *)
(* DigitalProduct.cpp) and the CSV data file it loads and saves.           *)
(*                                                                         *)
(* Representation:                                                         *)
(*  - a std::string is a sequence of one-character strings;                *)
(*  - a double is an integer count of 10^-7 units (DblScale to the unit),  *)
(*    one decimal digit finer than the six digits std::to_string prints;   *)
(*  - a Product* is an address of the heap, NULL being nullptr;            *)
(*  - a std::stringstream is a record of the unread characters and the     *)
(*    eofbit and failbit flags.                                            *)
(***************************************************************************)
EXTENDS Integers, Sequences, FiniteSets, TLC

VARIABLES heap, products, skuIndex, file, last

vars == <<heap, products, skuIndex, file, last>>

\* ------------------------------------------------------------------ bounds
MaxAddr == 3
MaxLines == 3

\* --------------------------------------------------------------- constants
NULL == 0
Free == [free |-> TRUE]
NoFile == [exists |-> FALSE, lines |-> <<>>]
FracDigits == 6
DblScale == 10000000

Addr == 1..MaxAddr

\* an existing data file holding the given lines
FileOf(lines) == [exists |-> TRUE, lines |-> lines]

\* ------------------------------------------------------------- sequencing
\* one statement after another: the value v of the first, computed once, is
\* what the rest F of the function body reads
Eval(v, F(_)) == CHOOSE r \in {F(x) : x \in {v}} : TRUE

\* ----------------------------------------------------------------- strings
Comma == ","
Newline == "\n"
Space == " "
Dot == "."
Minus == "-"
Plus == "+"
Hash == "#"

DigitChars == <<"0", "1", "2", "3", "4", "5", "6", "7", "8", "9">>

IsDigit(c) == \E i \in 1..10 : DigitChars[i] = c

DigitVal(c) == (CHOOSE i \in 1..10 : DigitChars[i] = c) - 1

RECURSIVE Pow10(_)
Pow10(n) == IF n = 0 THEN 1 ELSE 10 * Pow10(n - 1)

\* the decimal digits of a natural number, "%d"
RECURSIVE NatToString(_)
NatToString(n) ==
    IF n < 10 THEN <<DigitChars[n + 1]>>
    ELSE NatToString(n \div 10) \o <<DigitChars[(n % 10) + 1]>>

IntToString(n) == IF n < 0 THEN <<Minus>> \o NatToString(-n) ELSE NatToString(n)

\* n written with exactly w digits, leading zeros included
RECURSIVE ZeroPad(_, _)
ZeroPad(n, w) ==
    IF w = 0 THEN <<>>
    ELSE ZeroPad(n \div 10, w - 1) \o <<DigitChars[(n % 10) + 1]>>

\* "%f": round to FracDigits decimals (ties to even), fixed notation
RoundToFrac(d) ==
    LET step == DblScale \div Pow10(FracDigits)
        q == d \div step
        r == d % step
    IN  IF 2 * r > step \/ (2 * r = step /\ q % 2 = 1) THEN q + 1 ELSE q

DoubleToString(d) ==
    LET a == IF d < 0 THEN -d ELSE d
        m == RoundToFrac(a)
        body == NatToString(m \div Pow10(FracDigits)) \o <<Dot>>
                    \o ZeroPad(m % Pow10(FracDigits), FracDigits)
    IN  IF d < 0 THEN <<Minus>> \o body ELSE body

\* index of the first occurrence of c in s at or after position i, 0 when
\* there is none
RECURSIVE FindFrom(_, _, _)
FindFrom(s, c, i) ==
    IF i > Len(s) THEN 0
    ELSE IF s[i] = c THEN i
    ELSE FindFrom(s, c, i + 1)

\* std::string::find(c); 0 stands for npos
FindChar(s, c) == FindFrom(s, c, 1)

Drop(s, n) == SubSeq(s, n + 1, Len(s))

\* ------------------------------------------------------- std::stringstream
Stream(s) == [buf |-> s, eof |-> FALSE, fail |-> FALSE]

Good(ss) == ~ss.eof /\ ~ss.fail

\* std::getline(ss, str, delim); old is the value str had before the call
GetLine(ss, old, delim) ==
    IF ~Good(ss) THEN [ss |-> [ss EXCEPT !.fail = TRUE], v |-> old]
    ELSE Eval(FindChar(ss.buf, delim), LAMBDA k :
            IF k > 0
            THEN [ss |-> [ss EXCEPT !.buf = Drop(ss.buf, k)],
                  v |-> SubSeq(ss.buf, 1, k - 1)]
            ELSE [ss |-> [buf |-> <<>>, eof |-> TRUE, fail |-> ss.buf = <<>>],
                  v |-> ss.buf])

\* ss.ignore(1)
Ignore1(ss) ==
    IF ~Good(ss) THEN [ss EXCEPT !.fail = TRUE]
    ELSE IF ss.buf = <<>> THEN [ss EXCEPT !.eof = TRUE]
    ELSE [ss EXCEPT !.buf = Drop(ss.buf, 1)]

\* length of the longest prefix of s made of characters satisfying IsDigit
RECURSIVE DigitRun(_)
DigitRun(s) ==
    IF s # <<>> /\ IsDigit(s[1]) THEN 1 + DigitRun(Tail(s)) ELSE 0

RECURSIVE SpaceRun(_)
SpaceRun(s) ==
    IF s # <<>> /\ s[1] = Space THEN 1 + SpaceRun(Tail(s)) ELSE 0

\* value of the digit string s, its first n digits being worth acc
RECURSIVE DigitsFrom(_, _, _)
DigitsFrom(s, n, acc) ==
    IF n >= Len(s) THEN acc
    ELSE DigitsFrom(s, n + 1, 10 * acc + DigitVal(s[n + 1]))

DigitsVal(s) == DigitsFrom(s, 0, 0)

\* value, in 10^-7 units, of the fraction digits s (digits past the seventh
\* are below the resolution of the model)
FracVal(s) ==
    LET w == 1 + FracDigits
        t == IF Len(s) > w THEN SubSeq(s, 1, w) ELSE s
    IN  DigitsVal(t) * Pow10(w - Len(t))

\* the numeric token at the head of s: [sign] digits [. digits] for a double,
\* [sign] digits for an int; ok is FALSE when it holds no digit
NumToken(s, isDouble) ==
    Eval(IF s # <<>> /\ s[1] \in {Minus, Plus} THEN 1 ELSE 0, LAMBDA sg :
    Eval(DigitRun(Drop(s, sg)), LAMBDA ni :
    Eval(IF isDouble /\ Len(s) > sg + ni /\ s[sg + ni + 1] = Dot THEN 1 ELSE 0, LAMBDA dt :
    Eval(IF dt = 1 THEN DigitRun(Drop(s, sg + ni + 1)) ELSE 0, LAMBDA nf :
    Eval(IF isDouble
         THEN DigitsVal(SubSeq(s, sg + 1, sg + ni)) * DblScale
                 + FracVal(SubSeq(s, sg + ni + 2, sg + ni + 1 + nf))
         ELSE DigitsVal(SubSeq(s, sg + 1, sg + ni)), LAMBDA mag :
        [len |-> sg + ni + dt + nf,
         ok |-> ni + nf > 0,
         v |-> IF sg = 1 /\ s[1] = Minus THEN -mag ELSE mag])))))

\* ss >> x for a double or an int x; old is the value x had before the call
\* (a failed sentry leaves x untouched, a failed conversion stores 0)
ReadNum(ss, old, isDouble) ==
    IF ~Good(ss) THEN [ss |-> [ss EXCEPT !.fail = TRUE], v |-> old]
    ELSE Eval(Drop(ss.buf, SpaceRun(ss.buf)), LAMBDA b :
            IF b = <<>>
            THEN [ss |-> [buf |-> <<>>, eof |-> TRUE, fail |-> TRUE], v |-> old]
            ELSE Eval(NumToken(b, isDouble), LAMBDA t :
                 Eval(Drop(b, t.len), LAMBDA rest :
                    [ss |-> [buf |-> rest, eof |-> rest = <<>>, fail |-> ~t.ok],
                     v |-> IF t.ok THEN t.v ELSE 0])))

\* ----------------------------------------------------------------- records
PhysicalTag == <<"P", "h", "y", "s", "i", "c", "a", "l">>
DigitalTag == <<"D", "i", "g", "i", "t", "a", "l">>

\* the constructor storing its argument unchecked
ClampNegUnchecked(x) == x

\* Product::Product: a negative price or quantity is stored as 0
ClampNeg(x) == IF x >= 0 THEN x ELSE 0

\* PhysicalProduct::PhysicalProduct
NewPhysical(sku, name, price, quantity, category, weight, supplier) ==
    [type |-> PhysicalTag, sku |-> sku, name |-> name,
     price |-> ClampNeg(price), quantity |-> ClampNeg(quantity),
     category |-> category,
     weight |-> IF weight >= 0 THEN weight ELSE 0, supplier |-> supplier]

\* a digital record whose file size is stored as given
NewDigitalUnclamped(sku, name, price, quantity, category, downloadLink, fileSizeMB, licenseType) ==
    [type |-> DigitalTag, sku |-> sku, name |-> name,
     price |-> ClampNeg(price), quantity |-> ClampNeg(quantity),
     category |-> category, downloadLink |-> downloadLink,
     fileSizeMB |-> fileSizeMB,
     licenseType |-> licenseType]

\* DigitalProduct::DigitalProduct
NewDigital(sku, name, price, quantity, category, downloadLink, fileSizeMB, licenseType) ==
    [type |-> DigitalTag, sku |-> sku, name |-> name,
     price |-> ClampNeg(price), quantity |-> ClampNeg(quantity),
     category |-> category, downloadLink |-> downloadLink,
     fileSizeMB |-> IF fileSizeMB >= 0 THEN fileSizeMB ELSE 0,
     licenseType |-> licenseType]

IsPhysical(r) == r.type = PhysicalTag

\* Product::setName
SetName(r, name) == [r EXCEPT !.name = name]

\* Product::setPrice
SetPrice(r, price) == IF price < 0 THEN r ELSE [r EXCEPT !.price = price]

\* Product::setQuantity
SetQuantity(r, quantity) ==
    IF quantity < 0 THEN r ELSE [r EXCEPT !.quantity = quantity]

\* the four validating setters: the record afterwards and the value returned
\* Product::setPrice
setPrice(r, price) ==
    IF price < 0 THEN [r |-> r, ret |-> FALSE]
    ELSE [r |-> [r EXCEPT !.price = price], ret |-> TRUE]

\* Product::setQuantity
setQuantity(r, quantity) ==
    IF quantity < 0 THEN [r |-> r, ret |-> FALSE]
    ELSE [r |-> [r EXCEPT !.quantity = quantity], ret |-> TRUE]

\* a setWeight that stores what it is given
setWeightUnchecked(r, weight) == [r |-> [r EXCEPT !.weight = weight], ret |-> TRUE]

\* PhysicalProduct::setWeight
setWeight(r, weight) ==
    IF weight < 0 THEN [r |-> r, ret |-> FALSE]
    ELSE [r |-> [r EXCEPT !.weight = weight], ret |-> TRUE]

\* DigitalProduct::setFileSizeMB
setFileSizeMB(r, size) ==
    IF size < 0 THEN [r |-> r, ret |-> FALSE]
    ELSE [r |-> [r EXCEPT !.fileSizeMB = size], ret |-> TRUE]

\* the product a * b of two doubles, a >= 0 and 0 <= b <= 1, rounded to the
\* unit of the model; the factors are split in halves of four digits so that
\* no intermediate product leaves the machine integers
MulScaled(a, b) ==
    LET ar == a % DblScale
        ah == ar \div 10000
        al == ar % 10000
        bh == b \div 10000
        bl == b % 10000
        m == ah * bl + al * bh
    IN  (a \div DblScale) * b + ah * bh * 10 + m \div 1000
            + ((m % 1000) * 10000 + al * bl + DblScale \div 2) \div DblScale

\* 1 - percentage / 100.0
DiscountFactor(percentage) == DblScale - percentage \div 100

\* Product::applyDiscount
ProductApplyDiscount(r, percentage) ==
    IF percentage < 0 \/ percentage > 100 * DblScale THEN r.price
    ELSE MulScaled(r.price, DiscountFactor(percentage))

\* std::min
Min(a, b) == IF b < a THEN b ELSE a

\* a digital discount without the bonus of five points
DigitalApplyDiscountNoBonus(r, percentage) ==
    IF percentage < 0 \/ percentage > 100 * DblScale THEN r.price
    ELSE MulScaled(r.price, DiscountFactor(Min(percentage, 50 * DblScale)))

\* a digital discount that tests the range after the bonus is added
DigitalApplyDiscountLate(r, percentage) ==
    IF percentage + 5 * DblScale < 0 \/ percentage + 5 * DblScale > 100 * DblScale
    THEN r.price
    ELSE MulScaled(r.price,
                   DiscountFactor(Min(percentage + 5 * DblScale, 50 * DblScale)))

\* DigitalProduct::applyDiscount
DigitalApplyDiscount(r, percentage) ==
    IF percentage < 0 \/ percentage > 100 * DblScale THEN r.price
    ELSE MulScaled(r.price,
                   DiscountFactor(Min(percentage + 5 * DblScale, 50 * DblScale)))

\* the virtual call product->applyDiscount(percentage)
applyDiscount(r, percentage) ==
    IF IsPhysical(r) THEN ProductApplyDiscount(r, percentage)
    ELSE DigitalApplyDiscount(r, percentage)

\* ------------------------------------------------------------------- codec
\* Product::toCSV
ProductToCSV(r) ==
    r.sku \o <<Comma>> \o r.name \o <<Comma>> \o DoubleToString(r.price)
        \o <<Comma>> \o IntToString(r.quantity) \o <<Comma>> \o r.category

\* an encoding of a physical record under the tag of the other variant
PhysicalToCSVAsDigital(r) ==
    DigitalTag \o <<Comma>> \o ProductToCSV(r) \o <<Comma>>
        \o DoubleToString(r.weight) \o <<Comma>> \o r.supplier

\* PhysicalProduct::toCSV
PhysicalToCSV(r) ==
    PhysicalTag \o <<Comma>> \o ProductToCSV(r) \o <<Comma>>
        \o DoubleToString(r.weight) \o <<Comma>> \o r.supplier

DigitalToCSV(r) ==
    DigitalTag \o <<Comma>> \o ProductToCSV(r) \o <<Comma>> \o r.downloadLink
        \o <<Comma>> \o DoubleToString(r.fileSizeMB) \o <<Comma>> \o r.licenseType

\* the virtual call product->toCSV()
ToCSV(r) == IF IsPhysical(r) THEN PhysicalToCSV(r) ELSE DigitalToCSV(r)

\* PhysicalProduct::fromCSV; u holds the indeterminate values of the
\* uninitialised locals price, quantity and weight
PhysicalFromCSV(csvLine, u) ==
    Eval(GetLine(Stream(csvLine), <<>>, Comma), LAMBDA type :
    Eval(GetLine(type.ss, <<>>, Comma), LAMBDA sku :
    Eval(GetLine(sku.ss, <<>>, Comma), LAMBDA name :
    Eval(ReadNum(name.ss, u.price, TRUE), LAMBDA price :
    Eval(Ignore1(price.ss), LAMBDA ss1 :
    Eval(ReadNum(ss1, u.quantity, FALSE), LAMBDA quantity :
    Eval(Ignore1(quantity.ss), LAMBDA ss2 :
    Eval(GetLine(ss2, <<>>, Comma), LAMBDA category :
    Eval(ReadNum(category.ss, u.size, TRUE), LAMBDA weight :
    Eval(Ignore1(weight.ss), LAMBDA ss3 :
    Eval(GetLine(ss3, <<>>, Newline), LAMBDA supplier :
        NewPhysical(sku.v, name.v, price.v, quantity.v, category.v,
                    weight.v, supplier.v))))))))))))

\* DigitalProduct::fromCSV; u holds the indeterminate values of the
\* uninitialised locals price, quantity and fileSizeMB
DigitalFromCSV(csvLine, u) ==
    Eval(GetLine(Stream(csvLine), <<>>, Comma), LAMBDA type :
    Eval(GetLine(type.ss, <<>>, Comma), LAMBDA sku :
    Eval(GetLine(sku.ss, <<>>, Comma), LAMBDA name :
    Eval(ReadNum(name.ss, u.price, TRUE), LAMBDA price :
    Eval(Ignore1(price.ss), LAMBDA ss1 :
    Eval(ReadNum(ss1, u.quantity, FALSE), LAMBDA quantity :
    Eval(Ignore1(quantity.ss), LAMBDA ss2 :
    Eval(GetLine(ss2, <<>>, Comma), LAMBDA category :
    Eval(GetLine(category.ss, <<>>, Comma), LAMBDA downloadLink :
    Eval(ReadNum(downloadLink.ss, u.size, TRUE), LAMBDA fileSizeMB :
    Eval(Ignore1(fileSizeMB.ss), LAMBDA ss3 :
    Eval(GetLine(ss3, <<>>, Newline), LAMBDA licenseType :
        NewDigital(sku.v, name.v, price.v, quantity.v, category.v,
                   downloadLink.v, fileSizeMB.v, licenseType.v)))))))))))))

\* line.substr(0, line.find(','))
LeadingField(line) ==
    LET k == FindChar(line, Comma)
    IN  IF k = 0 THEN line ELSE SubSeq(line, 1, k - 1)

\* --------------------------------------------------------------- the heap
Live(h) == {a \in Addr : h[a] # Free}

\* the address operator new returns: the lowest free cell
NewAddr(h) == CHOOSE a \in Addr : h[a] = Free /\ \A b \in Addr : b < a => h[b] # Free

FreeCells(h) == Cardinality({a \in Addr : h[a] = Free})

\* delete p
Delete(h, p) == [h EXCEPT ![p] = Free]

RECURSIVE DeleteAll(_, _)
DeleteAll(h, ps) ==
    IF ps = <<>> THEN h ELSE DeleteAll(Delete(h, Head(ps)), Tail(ps))

\* --------------------------------------------------------------- Inventory
\* a store value st is [heap, products, skuIndex]; every operation below maps
\* a store value to [st |-> the store afterwards, ret |-> the value returned]
EmptyIndex == [s \in {} |-> NULL]

Store(h, ps, ix) == [heap |-> h, products |-> ps, skuIndex |-> ix]

\* skuIndex[key] = p
IndexPut(ix, key, p) ==
    [s \in DOMAIN ix \cup {key} |-> IF s = key THEN p ELSE ix[s]]

\* skuIndex.erase(key)
IndexErase(ix, key) == [s \in DOMAIN ix \ {key} |-> ix[s]]

\* Inventory::rebuildIndex (applied to the map emptied by skuIndex.clear())
RECURSIVE RebuildFrom(_, _, _)
RebuildFrom(ix, h, ps) ==
    IF ps = <<>> THEN ix
    ELSE RebuildFrom(IF Head(ps) # NULL THEN IndexPut(ix, h[Head(ps)].sku, Head(ps)) ELSE ix,
                     h, Tail(ps))

rebuildIndex(h, ps) == RebuildFrom(EmptyIndex, h, ps)

\* addProduct without the duplicate-sku check
addProductNoDupCheck(st, product) ==
    IF product = NULL THEN [st |-> st, ret |-> FALSE]
    ELSE [st |-> Store(st.heap, Append(st.products, product),
                       IndexPut(st.skuIndex, st.heap[product].sku, product)),
          ret |-> TRUE]

\* addProduct that forgets to index the record
addProductNoIndex(st, product) ==
    IF product = NULL THEN [st |-> st, ret |-> FALSE]
    ELSE IF st.heap[product].sku \in DOMAIN st.skuIndex THEN [st |-> st, ret |-> FALSE]
    ELSE [st |-> Store(st.heap, Append(st.products, product), st.skuIndex),
          ret |-> TRUE]

\* Inventory::addProduct
addProduct(st, product) ==
    IF product = NULL THEN [st |-> st, ret |-> FALSE]
    ELSE IF st.heap[product].sku \in DOMAIN st.skuIndex THEN [st |-> st, ret |-> FALSE]
    ELSE [st |-> Store(st.heap, Append(st.products, product),
                       IndexPut(st.skuIndex, st.heap[product].sku, product)),
          ret |-> TRUE]

\* std::find_if over products: index of the first record with that sku, 0 if none
FindSku(h, ps, sku) ==
    IF \E i \in 1..Len(ps) : h[ps[i]].sku = sku
    THEN CHOOSE i \in 1..Len(ps) :
            h[ps[i]].sku = sku /\ \A j \in 1..(i - 1) : h[ps[j]].sku # sku
    ELSE 0

\* products.erase(it)
EraseAt(ps, i) == SubSeq(ps, 1, i - 1) \o SubSeq(ps, i + 1, Len(ps))

\* removeProduct that forgets skuIndex.erase
removeProductNoErase(st, sku) ==
    IF sku \notin DOMAIN st.skuIndex THEN [st |-> st, ret |-> FALSE]
    ELSE LET i == FindSku(st.heap, st.products, sku)
         IN  [st |-> IF i # 0
                     THEN Store(Delete(st.heap, st.products[i]), EraseAt(st.products, i),
                                st.skuIndex)
                     ELSE st,
              ret |-> TRUE]

\* removeProduct that forgets to delete the record
removeProductNoDelete(st, sku) ==
    IF sku \notin DOMAIN st.skuIndex THEN [st |-> st, ret |-> FALSE]
    ELSE LET i == FindSku(st.heap, st.products, sku)
         IN  [st |-> IF i # 0
                     THEN Store(st.heap, EraseAt(st.products, i),
                                IndexErase(st.skuIndex, sku))
                     ELSE Store(st.heap, st.products, IndexErase(st.skuIndex, sku)),
              ret |-> TRUE]

\* Inventory::removeProduct
removeProduct(st, sku) ==
    IF sku \notin DOMAIN st.skuIndex THEN [st |-> st, ret |-> FALSE]
    ELSE LET i == FindSku(st.heap, st.products, sku)
         IN  [st |-> IF i # 0
                     THEN Store(Delete(st.heap, st.products[i]), EraseAt(st.products, i),
                                IndexErase(st.skuIndex, sku))
                     ELSE Store(st.heap, st.products, IndexErase(st.skuIndex, sku)),
              ret |-> TRUE]

\* Inventory::getProduct
getProduct(st, sku) == IF sku \in DOMAIN st.skuIndex THEN st.skuIndex[sku] ELSE NULL

\* Inventory::skuExists
skuExists(st, sku) == sku \in DOMAIN st.skuIndex

\* Inventory::getProductCount
getProductCount(st) == Len(st.products)

\* the setter calls with a price of 0 taken for the sentinel
ApplyUpdatePositive(r, name, price, quantity) ==
    LET r1 == IF name # <<>> THEN SetName(r, name) ELSE r
        r2 == IF price > 0 THEN SetPrice(r1, price) ELSE r1
    IN  IF quantity >= 0 THEN SetQuantity(r2, quantity) ELSE r2

\* the three conditional setter calls of Inventory::updateProduct
ApplyUpdate(r, name, price, quantity) ==
    LET r1 == IF name # <<>> THEN SetName(r, name) ELSE r
        r2 == IF price >= 0 THEN SetPrice(r1, price) ELSE r1
    IN  IF quantity >= 0 THEN SetQuantity(r2, quantity) ELSE r2

\* an update that goes through the whole sequence once the sku is found
updateProductEverywhere(st, sku, name, price, quantity) ==
    LET product == getProduct(st, sku)
    IN  IF product = NULL THEN [st |-> st, ret |-> FALSE]
        ELSE [st |-> [st EXCEPT !.heap =
                        [a \in Addr |->
                            IF \E i \in 1..Len(st.products) : st.products[i] = a
                            THEN ApplyUpdate(st.heap[a], name, price, quantity)
                            ELSE st.heap[a]]],
              ret |-> TRUE]

\* Inventory::updateProduct
updateProduct(st, sku, name, price, quantity) ==
    LET product == getProduct(st, sku)
    IN  IF product = NULL THEN [st |-> st, ret |-> FALSE]
        ELSE [st |-> [st EXCEPT !.heap[product] = ApplyUpdate(@, name, price, quantity)],
              ret |-> TRUE]

\* Inventory::isEmpty
isEmpty(st) == st.products = <<>>

\* a clear that deletes the records and empties the sequence, not the index
clearAllKeepsIndex(st) == Store(DeleteAll(st.heap, st.products), <<>>, st.skuIndex)

\* Inventory::clearAll
clearAll(st) == Store(DeleteAll(st.heap, st.products), <<>>, EmptyIndex)

\* ----------------------------------------------------------------- sorting
\* the characters of the model in ASCII code order, the order std::string
\* compares by
Ascii ==
    <<" ", "#", "+", ",", "-", ".", "0", "1", "2", "3", "4", "5", "6", "7",
      "8", "9", ":", "A", "B", "C", "D", "E", "F", "G", "H", "I", "J", "K",
      "L", "M", "N", "O", "P", "Q", "R", "S", "T", "U", "V", "W", "X", "Y",
      "Z", "[", "]", "a", "b", "c", "d", "e", "f", "g", "h", "i", "j", "k",
      "l", "m", "n", "o", "p", "q", "r", "s", "t", "u", "v", "w", "x", "y",
      "z">>

CharCode(c) == CHOOSE i \in 1..Len(Ascii) : Ascii[i] = c

\* std::string operator<
RECURSIVE StrLess(_, _)
StrLess(a, b) ==
    IF b = <<>> THEN FALSE
    ELSE IF a = <<>> THEN TRUE
    ELSE IF a[1] # b[1] THEN CharCode(a[1]) < CharCode(b[1])
    ELSE StrLess(Tail(a), Tail(b))

\* a value that leaves the quantity out
calculateValuePerUnit(r) == r.price

\* Product::calculateValue
calculateValue(r) == r.price * r.quantity

\* the five comparators handed to std::sort
LessBySku(a, b) == StrLess(a.sku, b.sku)
LessByName(a, b) == StrLess(a.name, b.name)
LessByPrice(a, b) == a.price < b.price
LessByQuantity(a, b) == a.quantity < b.quantity
\* a value comparator that orders the lowest value first
LessByValueAscending(a, b) == calculateValue(a) < calculateValue(b)

LessByValue(a, b) == calculateValue(a) > calculateValue(b)

SortKeys == {"sku", "name", "price", "quantity", "value"}

Less(key, a, b) ==
    CASE key = "sku" -> LessBySku(a, b)
      [] key = "name" -> LessByName(a, b)
      [] key = "price" -> LessByPrice(a, b)
      [] key = "quantity" -> LessByQuantity(a, b)
      [] key = "value" -> LessByValue(a, b)

\* the rearrangements of ps
Perms(ps) ==
    {[i \in 1..Len(ps) |-> ps[f[i]]] :
        f \in {g \in [1..Len(ps) -> 1..Len(ps)] :
                  \A i, j \in 1..Len(ps) : i # j => g[i] # g[j]}}

\* what std::sort may leave: any rearrangement in which no element is ordered
\* before an earlier one (std::sort does not fix the order of equivalent elements)
SortResults(h, ps, key) ==
    {q \in Perms(ps) :
        \A i, j \in 1..Len(q) : i < j => ~Less(key, h[q[j]], h[q[i]])}

\* Inventory::sortBySku .. sortByValue, q being the order std::sort produced
sortBy(st, q) == Store(st.heap, q, rebuildIndex(st.heap, q))

\* ----------------------------------------------------------------- queries
\* the loop of Inventory::getTotalValue from the i-th record on, total being
\* the sum so far
RECURSIVE TotalFrom(_, _, _, _)
TotalFrom(h, ps, i, total) ==
    IF i > Len(ps) THEN total
    ELSE TotalFrom(h, ps, i + 1, total + calculateValue(h[ps[i]]))

\* Inventory::getTotalValue
getTotalValue(st) == TotalFrom(st.heap, st.products, 1, 0)

UpperChars ==
    <<"A", "B", "C", "D", "E", "F", "G", "H", "I", "J", "K", "L", "M", "N",
      "O", "P", "Q", "R", "S", "T", "U", "V", "W", "X", "Y", "Z">>

LowerChars ==
    <<"a", "b", "c", "d", "e", "f", "g", "h", "i", "j", "k", "l", "m", "n",
      "o", "p", "q", "r", "s", "t", "u", "v", "w", "x", "y", "z">>

\* ::tolower
ToLower(c) ==
    IF \E i \in 1..26 : UpperChars[i] = c
    THEN LowerChars[CHOOSE i \in 1..26 : UpperChars[i] = c]
    ELSE c

\* std::transform(s.begin(), s.end(), s.begin(), ::tolower)
LowerCase(s) == [i \in 1..Len(s) |-> ToLower(s[i])]

\* std::string::find(t): the first position at which t occurs in s, 0
\* standing for npos
FindStr(s, t) ==
    IF \E i \in 1..(Len(s) - Len(t) + 1) : SubSeq(s, i, i + Len(t) - 1) = t
    THEN CHOOSE i \in 1..(Len(s) - Len(t) + 1) :
            /\ SubSeq(s, i, i + Len(t) - 1) = t
            /\ \A j \in 1..(i - 1) : SubSeq(s, j, j + Len(t) - 1) # t
    ELSE 0

\* a name test that compares the name as it is written
MatchNameExactCase(r, lowerSearch) == FindStr(r.name, lowerSearch) # 0

\* the tests of the three search loops, the term being in lower case already
MatchName(r, lowerSearch) == FindStr(LowerCase(r.name), lowerSearch) # 0

MatchCategory(r, lowerCategory) == FindStr(LowerCase(r.category), lowerCategory) # 0

\* a type test that accepts a part of the type name
MatchTypePart(r, lowerType) == FindStr(LowerCase(r.type), lowerType) # 0

MatchType(r, lowerType) == LowerCase(r.type) = lowerType

Match(by, r, term) ==
    CASE by = "name" -> MatchName(r, term)
      [] by = "category" -> MatchCategory(r, term)
      [] by = "type" -> MatchType(r, term)

\* the for loop of a search from the i-th record on: results.push_back(product)
\* for every record that passes the test
RECURSIVE PushMatches(_, _, _, _, _, _)
PushMatches(h, ps, i, results, by, term) ==
    IF i > Len(ps) THEN results
    ELSE PushMatches(h, ps, i + 1,
                     IF Match(by, h[ps[i]], term) THEN Append(results, ps[i]) ELSE results,
                     by, term)

\* Inventory::searchByName
searchByName(st, searchTerm) ==
    PushMatches(st.heap, st.products, 1, <<>>, "name", LowerCase(searchTerm))

\* Inventory::searchByCategory
searchByCategory(st, category) ==
    PushMatches(st.heap, st.products, 1, <<>>, "category", LowerCase(category))

\* Inventory::searchByType
searchByType(st, type) ==
    PushMatches(st.heap, st.products, 1, <<>>, "type", LowerCase(type))

\* a low-stock test that also flags a quantity equal to the threshold
IsLowStockInclusive(r, threshold) == r.quantity <= threshold

\* the test of Inventory::displayLowStock
IsLowStock(r, threshold) == r.quantity < threshold

\* the for loop of Inventory::displayLowStock from the i-th record on, shown
\* being the records displayed so far
RECURSIVE LowStockFrom(_, _, _, _, _)
LowStockFrom(h, ps, i, shown, threshold) ==
    IF i > Len(ps) THEN shown
    ELSE LowStockFrom(h, ps, i + 1,
                      IF IsLowStock(h[ps[i]], threshold) THEN Append(shown, ps[i])
                      ELSE shown,
                      threshold)

\* Inventory::displayLowStock: the records it displays, in the order it
\* displays them, and whether it found any
displayLowStock(st, threshold) ==
    Eval(LowStockFrom(st.heap, st.products, 1, <<>>, threshold), LAMBDA shown :
        [shown |-> shown, found |-> shown # <<>>])

\* ---------------------------------------------------------------- file I/O
HeaderLine1 ==
    <<"#", " ", "S", "m", "a", "l", "l", "B", "i", "z", " ", "I", "n", "v",
      "e", "n", "t", "o", "r", "y", " ", "D", "a", "t", "a", " ", "F", "i",
      "l", "e">>

HeaderLine2 ==
    <<"#", " ", "F", "o", "r", "m", "a", "t", ":", " ", "T", "y", "p", "e",
      ",", "S", "K", "U", ",", "N", "a", "m", "e", ",", "P", "r", "i", "c",
      "e", ",", "Q", "u", "a", "n", "t", "i", "t", "y", ",", "C", "a", "t",
      "e", "g", "o", "r", "y", ",", "[", "T", "y", "p", "e", "-", "s", "p",
      "e", "c", "i", "f", "i", "c", " ", "f", "i", "e", "l", "d", "s", "]">>

\* the lines Inventory::saveToFile writes
SavedLines(h, ps) ==
    <<HeaderLine1, HeaderLine2>> \o [i \in 1..Len(ps) |-> ToCSV(h[ps[i]])]

\* a save that writes after the lines the file already holds
saveToFileAppend(st, f, opens) ==
    IF ~opens THEN [file |-> f, ret |-> FALSE]
    ELSE [file |-> FileOf(f.lines \o SavedLines(st.heap, st.products)), ret |-> TRUE]

\* Inventory::saveToFile: the content of the file afterwards and the result
saveToFile(st, f, opens) ==
    IF ~opens THEN [file |-> f, ret |-> FALSE]
    ELSE [file |-> FileOf(SavedLines(st.heap, st.products)), ret |-> TRUE]

\* the body of the while loop of Inventory::loadFromFile for one line
LoadLine(st, line, u) ==
    IF line = <<>> \/ line[1] = Hash THEN st
    ELSE Eval(LeadingField(line), LAMBDA type :
            IF type = PhysicalTag
            THEN Eval(NewAddr(st.heap), LAMBDA p :
                 Eval([st EXCEPT !.heap[p] = PhysicalFromCSV(line, u)], LAMBDA st1 :
                    addProduct(st1, p).st))
            ELSE IF type = DigitalTag
            THEN Eval(NewAddr(st.heap), LAMBDA p :
                 Eval([st EXCEPT !.heap[p] = DigitalFromCSV(line, u)], LAMBDA st1 :
                    addProduct(st1, p).st))
            ELSE st)

\* a loop that ends at the first line it does not decode
RECURSIVE LoadLinesUntilSkipped(_, _, _, _)
LoadLinesUntilSkipped(st, lines, i, u) ==
    IF i > Len(lines) THEN st
    ELSE IF lines[i] = <<>> \/ lines[i][1] = Hash
            \/ LeadingField(lines[i]) \notin {PhysicalTag, DigitalTag}
    THEN st
    ELSE Eval(LoadLine(st, lines[i], u), LAMBDA st1 :
            LoadLinesUntilSkipped(st1, lines, i + 1, u))

\* a loop that reads the lines from the last to the first
RECURSIVE LoadLinesBackwards(_, _, _, _)
LoadLinesBackwards(st, lines, i, u) ==
    IF i > Len(lines) THEN st
    ELSE Eval(LoadLine(st, lines[Len(lines) + 1 - i], u), LAMBDA st1 :
            LoadLinesBackwards(st1, lines, i + 1, u))

\* the while loop of Inventory::loadFromFile over the lines from the i-th on
RECURSIVE LoadLines(_, _, _, _)
LoadLines(st, lines, i, u) ==
    IF i > Len(lines) THEN st
    ELSE Eval(LoadLine(st, lines[i], u), LAMBDA st1 : LoadLines(st1, lines, i + 1, u))

\* a load that leaves a store that holds records as it is
loadFromFileIntoEmpty(st, f, opens, u) ==
    IF ~f.exists \/ ~opens THEN [st |-> st, ret |-> FALSE]
    ELSE IF st.products # <<>> THEN [st |-> st, ret |-> TRUE]
    ELSE [st |-> LoadLines(st, f.lines, 1, u), ret |-> TRUE]

\* a load that reports failure when the file gave no record
loadFromFileNeedsRecord(st, f, opens, u) ==
    IF ~f.exists \/ ~opens THEN [st |-> st, ret |-> FALSE]
    ELSE Eval(clearAll(st), LAMBDA st0 :
         Eval(LoadLines(st0, f.lines, 1, u), LAMBDA st1 :
            [st |-> st1, ret |-> st1.products # <<>>]))

\* a load that clears the store before it tests the file
loadFromFileClearsFirst(st, f, opens, u) ==
    Eval(clearAll(st), LAMBDA st0 :
        IF ~f.exists \/ ~opens THEN [st |-> st0, ret |-> FALSE]
        ELSE [st |-> LoadLines(st0, f.lines, 1, u), ret |-> TRUE])

\* Inventory::loadFromFile
loadFromFile(st, f, opens, u) ==
    IF ~f.exists \/ ~opens THEN [st |-> st, ret |-> FALSE]
    ELSE Eval(clearAll(st), LAMBDA st0 :
            [st |-> LoadLines(st0, f.lines, 1, u), ret |-> TRUE])

\* ------------------------------------------------------------------ inputs
SkuA == <<"A">>
SkuB == <<"B">>
Skus == {SkuA, SkuB}

\* numeric constructor arguments (doubles in 10^-7 units): price 2.0,
\* quantity 5 and size 0.5, or all three negative
PlainNumbers == [price |-> 20000000, quantity |-> 5, size |-> 5000000]
NegativeNumbers == [price |-> -20000000, quantity |-> -5, size |-> -5000000]

\* the records a caller constructs from numeric arguments ns and hands to
\* addProduct: a Physical one of sku A and a Digital one of sku B
CtorRecords(ns) ==
    {NewPhysical(SkuA, <<"n">>, n.price, n.quantity, <<"c">>, n.size, <<"s">>) : n \in ns}
    \cup
    {NewDigital(SkuB, <<"n">>, n.price, n.quantity, <<"c">>, <<"l">>, n.size, <<"t">>) :
        n \in ns}

\* arguments (name, price, quantity) of updateProduct: all sentinels (empty,
\* negative), each field alone with 0 or with a value, and all fields at once
UpdateArgs ==
    {<<name, -10000000, -1>> : name \in {<<>>, <<"m">>}}
    \cup {<<(<<>>), price, -1>> : price \in {0, 20000000}}
    \cup {<<(<<>>), -10000000, quantity>> : quantity \in {0, 5}}
    \cup {<<(<<"m">>), 0, 0>>, <<(<<"m">>), 20000000, 5>>}

\* indeterminate values left in the uninitialised locals of fromCSV
Garbage ==
    {[price |-> -3, quantity |-> -3, size |-> -3],
     [price |-> 7, quantity |-> 7, size |-> 7]}

\* a well-formed Physical line: Physical,A,n,2.000000,5,c,0.500000,s
LinePhysicalA ==
    <<"P", "h", "y", "s", "i", "c", "a", "l", ",", "A", ",", "n", ",", "2",
      ".", "0", "0", "0", "0", "0", "0", ",", "5", ",", "c", ",", "0", ".",
      "5", "0", "0", "0", "0", "0", ",", "s">>

\* a well-formed Digital line: Digital,B,n,2.000000,5,c,l,0.500000,t
LineDigitalB ==
    <<"D", "i", "g", "i", "t", "a", "l", ",", "B", ",", "n", ",", "2", ".",
      "0", "0", "0", "0", "0", "0", ",", "5", ",", "c", ",", "l", ",", "0",
      ".", "5", "0", "0", "0", "0", "0", ",", "t">>

\* a well-formed Digital line with the sku of LinePhysicalA: Digital,A,m,2.000000,5,c,l,0.500000,t
LineDigitalA ==
    <<"D", "i", "g", "i", "t", "a", "l", ",", "A", ",", "m", ",", "2", ".",
      "0", "0", "0", "0", "0", "0", ",", "5", ",", "c", ",", "l", ",", "0",
      ".", "5", "0", "0", "0", "0", "0", ",", "t">>

\* a well-formed line with negative numbers: Physical,B,n,-2.000000,-5,c,-0.500000,s
LineNegative ==
    <<"P", "h", "y", "s", "i", "c", "a", "l", ",", "B", ",", "n", ",", "-",
      "2", ".", "0", "0", "0", "0", "0", "0", ",", "-", "5", ",", "c", ",",
      "-", "0", ".", "5", "0", "0", "0", "0", "0", ",", "s">>

\* a comment line: # note
LineComment ==
    <<"#", " ", "n", "o", "t", "e">>

\* a line with an unrecognised type tag: Widget,B,n,2.000000,5,c,0.500000,s
LineUnknownTag ==
    <<"W", "i", "d", "g", "e", "t", ",", "B", ",", "n", ",", "2", ".", "0",
      "0", "0", "0", "0", "0", ",", "5", ",", "c", ",", "0", ".", "5", "0",
      "0", "0", "0", "0", ",", "s">>

\* a tagged line with too few fields: Physical,B
LineShort ==
    <<"P", "h", "y", "s", "i", "c", "a", "l", ",", "B">>

\* a tagged line with a non-numeric price: Physical,B,n,x,5,c,0.500000,s
LineBadPrice ==
    <<"P", "h", "y", "s", "i", "c", "a", "l", ",", "B", ",", "n", ",", "x",
      ",", "5", ",", "c", ",", "0", ".", "5", "0", "0", "0", "0", "0", ",",
      "s">>

\* a tagged line with no sku text: Physical
LineTagOnly ==
    <<"P", "h", "y", "s", "i", "c", "a", "l">>

\* number of lines of f for which loadFromFile calls fromCSV
TaggedCount(f) ==
    Cardinality({i \in 1..Len(f) :
        /\ f[i] # <<>>
        /\ f[i][1] # Hash
        /\ LeadingField(f[i]) \in {PhysicalTag, DigitalTag}})

\* ------------------------------------------------------------ state machine
Current == Store(heap, products, skuIndex)

Install(st) ==
    /\ heap' = st.heap
    /\ products' = st.products
    /\ skuIndex' = st.skuIndex

\* the state after Inventory::Inventory, the data file being f
InitWith(f) ==
    /\ heap = [a \in Addr |-> Free]
    /\ products = <<>>
    /\ skuIndex = EmptyIndex
    /\ file = f
    /\ last = [op |-> "none"]

\* a caller constructs rec with new and calls addProduct; it deletes the
\* record itself when the call fails (main.cpp, addProduct)
AddProduct(rec) ==
    /\ FreeCells(heap) >= 1
    /\ \E p \in {NewAddr(heap)} :
          \E r \in {addProduct([Current EXCEPT !.heap[p] = rec], p)} :
             /\ Install(IF r.ret THEN r.st ELSE [r.st EXCEPT !.heap = Delete(@, p)])
             /\ last' = [op |-> "addProduct", ret |-> r.ret]
    /\ UNCHANGED file

\* addProduct(nullptr)
AddNull ==
    /\ \E r \in {addProduct(Current, NULL)} :
          /\ Install(r.st)
          /\ last' = [op |-> "addProduct", ret |-> r.ret]
    /\ UNCHANGED file

RemoveProduct(sku) ==
    /\ \E r \in {removeProduct(Current, sku)} :
          /\ Install(r.st)
          /\ last' = [op |-> "removeProduct", ret |-> r.ret]
    /\ UNCHANGED file

UpdateProduct(sku, name, price, quantity) ==
    /\ \E r \in {updateProduct(Current, sku, name, price, quantity)} :
          /\ Install(r.st)
          /\ last' = [op |-> "updateProduct", ret |-> r.ret]
    /\ UNCHANGED file

SortBy(key) ==
    /\ \E q \in SortResults(heap, products, key) :
          \E st \in {sortBy(Current, q)} : Install(st)
    /\ last' = [op |-> "sortBy"]
    /\ UNCHANGED file

\* clearAll(); released is the number of records its loop deletes
ClearAll ==
    /\ \E st \in {clearAll(Current)} : Install(st)
    /\ last' = [op |-> "clearAll", released |-> Len(products)]
    /\ UNCHANGED file

SaveToFile(opens) ==
    /\ \E r \in {saveToFile(Current, file, opens)} :
          /\ file' = r.file
          /\ last' = [op |-> "saveToFile", ret |-> r.ret]
    /\ UNCHANGED <<heap, products, skuIndex>>

\* loadFromFile(); released is the number of records its clearAll deletes
LoadFromFile(opens, u) ==
    /\ file.exists /\ opens =>
          FreeCells(clearAll(Current).heap) >= TaggedCount(file.lines)
    /\ \E r \in {loadFromFile(Current, file, opens, u)} :
          /\ Install(r.st)
          /\ last' = [op |-> "loadFromFile", ret |-> r.ret,
                      released |-> IF r.ret THEN Len(products) ELSE 0]
    /\ UNCHANGED file

\* a caller holding the pointer getProduct(sku) returned calls a setter or
\* applyDiscount through it
SetPriceCall(sku, price) ==
    /\ getProduct(Current, sku) # NULL
    /\ \E p \in {getProduct(Current, sku)} :
          \E r \in {setPrice(heap[p], price)} :
             /\ heap' = [heap EXCEPT ![p] = r.r]
             /\ last' = [op |-> "setPrice", ret |-> r.ret]
    /\ UNCHANGED <<products, skuIndex, file>>

SetQuantityCall(sku, quantity) ==
    /\ getProduct(Current, sku) # NULL
    /\ \E p \in {getProduct(Current, sku)} :
          \E r \in {setQuantity(heap[p], quantity)} :
             /\ heap' = [heap EXCEPT ![p] = r.r]
             /\ last' = [op |-> "setQuantity", ret |-> r.ret]
    /\ UNCHANGED <<products, skuIndex, file>>

\* the pointer is one to a PhysicalProduct
SetWeightCall(sku, weight) ==
    /\ getProduct(Current, sku) # NULL
    /\ IsPhysical(heap[getProduct(Current, sku)])
    /\ \E p \in {getProduct(Current, sku)} :
          \E r \in {setWeight(heap[p], weight)} :
             /\ heap' = [heap EXCEPT ![p] = r.r]
             /\ last' = [op |-> "setWeight", ret |-> r.ret]
    /\ UNCHANGED <<products, skuIndex, file>>

\* the pointer is one to a DigitalProduct
SetFileSizeMBCall(sku, size) ==
    /\ getProduct(Current, sku) # NULL
    /\ ~IsPhysical(heap[getProduct(Current, sku)])
    /\ \E p \in {getProduct(Current, sku)} :
          \E r \in {setFileSizeMB(heap[p], size)} :
             /\ heap' = [heap EXCEPT ![p] = r.r]
             /\ last' = [op |-> "setFileSizeMB", ret |-> r.ret]
    /\ UNCHANGED <<products, skuIndex, file>>

ApplyDiscountCall(sku, percentage) ==
    /\ getProduct(Current, sku) # NULL
    /\ last' = [op |-> "applyDiscount",
                price |-> applyDiscount(heap[getProduct(Current, sku)], percentage)]
    /\ UNCHANGED <<heap, products, skuIndex, file>>

\* the calls that read the store; each leaves in last what it returned
GetProductCall(sku) ==
    /\ last' = [op |-> "getProduct", sku |-> sku, ptr |-> getProduct(Current, sku)]
    /\ UNCHANGED <<heap, products, skuIndex, file>>

SkuExistsCall(sku) ==
    /\ last' = [op |-> "skuExists", sku |-> sku, ret |-> skuExists(Current, sku)]
    /\ UNCHANGED <<heap, products, skuIndex, file>>

GetProductCountCall ==
    /\ last' = [op |-> "getProductCount", count |-> getProductCount(Current)]
    /\ UNCHANGED <<heap, products, skuIndex, file>>

IsEmptyCall ==
    /\ last' = [op |-> "isEmpty", ret |-> isEmpty(Current)]
    /\ UNCHANGED <<heap, products, skuIndex, file>>

GetTotalValueCall ==
    /\ last' = [op |-> "getTotalValue", total |-> getTotalValue(Current)]
    /\ UNCHANGED <<heap, products, skuIndex, file>>

\* product->calculateValue() through the pointer getProduct(sku) returned
CalculateValueCall(sku) ==
    /\ getProduct(Current, sku) # NULL
    /\ last' = [op |-> "calculateValue", sku |-> sku,
                value |-> calculateValue(heap[getProduct(Current, sku)])]
    /\ UNCHANGED <<heap, products, skuIndex, file>>

\* a search that lower-cases the names of the records where they are stored
SearchByNameCallInPlace(term) ==
    /\ last' = [op |-> "searchByName", term |-> term,
                results |-> searchByName(Current, term)]
    /\ heap' = [a \in Addr |->
                  IF \E i \in 1..Len(products) : products[i] = a
                  THEN [heap[a] EXCEPT !.name = LowerCase(@)]
                  ELSE heap[a]]
    /\ UNCHANGED <<products, skuIndex, file>>

SearchByNameCall(term) ==
    /\ last' = [op |-> "searchByName", term |-> term,
                results |-> searchByName(Current, term)]
    /\ UNCHANGED <<heap, products, skuIndex, file>>

SearchByCategoryCall(term) ==
    /\ last' = [op |-> "searchByCategory", term |-> term,
                results |-> searchByCategory(Current, term)]
    /\ UNCHANGED <<heap, products, skuIndex, file>>

SearchByTypeCall(term) ==
    /\ last' = [op |-> "searchByType", term |-> term,
                results |-> searchByType(Current, term)]
    /\ UNCHANGED <<heap, products, skuIndex, file>>

DisplayLowStockCall(threshold) ==
    /\ \E r \in {displayLowStock(Current, threshold)} :
          last' = [op |-> "displayLowStock", threshold |-> threshold,
                   shown |-> r.shown, found |-> r.found]
    /\ UNCHANGED <<heap, products, skuIndex, file>>

\* ------------------------------------------- the store under all its mutators
\* the data file found at start-up: a comment, a line with negative numbers
\* and two lines of the same sku
StartFile == FileOf(<<LineComment, LinePhysicalA, LineNegative, LineDigitalA>>)

Init == InitWith(StartFile)

\* the arguments (name, price, quantity) of updateProduct: every sentinel, or
\* a name with price 0 and quantity 0
FewUpdateArgs == {<<(<<>>), -10000000, -1>>, <<(<<"m">>), 0, 0>>}

Next ==
    \/ \E rec \in CtorRecords({PlainNumbers, NegativeNumbers}) : AddProduct(rec)
    \/ AddNull
    \/ \E sku \in Skus : RemoveProduct(sku)
    \/ \E sku \in Skus, a \in FewUpdateArgs : UpdateProduct(sku, a[1], a[2], a[3])
    \/ \E key \in SortKeys : SortBy(key)
    \/ ClearAll
    \/ \E opens \in BOOLEAN, u \in Garbage : LoadFromFile(opens, u)

Spec == Init /\ [][Next]_vars

\* ------------------------------------------------- loading arbitrary files
\* the lines a data file found at start-up is made of
CandidateLines ==
    {LinePhysicalA, LineDigitalB, LineDigitalA, LineNegative, LineComment,
     LineUnknownTag, LineShort, LineBadPrice, LineTagOnly, <<>>}

RECURSIVE FilesOfLen(_)
FilesOfLen(n) ==
    IF n = 0 THEN {<<>>}
    ELSE {Append(f, l) : f \in FilesOfLen(n - 1), l \in CandidateLines}

\* the data files found at start-up: none, or up to MaxLines candidate lines
InitFiles == {NoFile} \cup {FileOf(f) : f \in UNION {FilesOfLen(n) : n \in 0..MaxLines}}

InitLoad == \E f \in InitFiles : InitWith(f)

NextLoad ==
    \/ \E opens \in BOOLEAN, u \in Garbage : LoadFromFile(opens, u)
    \/ ClearAll

SpecLoad == InitLoad /\ [][NextLoad]_vars

\* ------------------------------------------------------ saving and reloading
\* numeric constructor arguments with seven decimals: price 1.2345678 and
\* size 0.0000004
FineNumbers == [price |-> 12345678, quantity |-> 5, size |-> 4]

InitFile == InitWith(NoFile)

NextFile ==
    \/ \E rec \in CtorRecords({PlainNumbers, FineNumbers}) : AddProduct(rec)
    \/ \E key \in SortKeys : SortBy(key)
    \/ ClearAll
    \/ \E opens \in BOOLEAN : SaveToFile(opens)
    \/ \E opens \in BOOLEAN, u \in Garbage : LoadFromFile(opens, u)

SpecFile == InitFile /\ [][NextFile]_vars

\* ----------------------------------------------------- updating the records
InitUpdate == InitWith(NoFile)

NextUpdate ==
    \/ \E rec \in CtorRecords({PlainNumbers}) : AddProduct(rec)
    \/ \E sku \in Skus, a \in UpdateArgs : UpdateProduct(sku, a[1], a[2], a[3])

SpecUpdate == InitUpdate /\ [][NextUpdate]_vars

\* ------------------------------------------- the records and their methods
\* numeric constructor arguments of mixed sign: price -5 and weight or size
\* -0.5 with quantity 5, and price 100 and weight or size 0.5 with quantity -1
MixedNumbers ==
    {[price |-> -50000000, quantity |-> 5, size |-> -5000000],
     [price |-> 1000000000, quantity |-> -1, size |-> 5000000]}

\* the arguments of the setters: a negative one, 0 and a positive one
SetterDoubles == {-10000000, 0, 25000000}
SetterInts == {-1, 0, 3}

\* the percentages handed to applyDiscount: -1, 0, 10, 47.5, 50, 100, 100.1
\* and 101
Percentages ==
    {-10000000, 0, 100000000, 475000000, 500000000, 1000000000, 1001000000,
     1010000000}

InitRecord == InitWith(NoFile)

NextRecord ==
    \/ \E rec \in CtorRecords(MixedNumbers) : AddProduct(rec)
    \/ \E sku \in Skus, v \in SetterDoubles : SetPriceCall(sku, v)
    \/ \E sku \in Skus, v \in SetterInts : SetQuantityCall(sku, v)
    \/ \E sku \in Skus, v \in SetterDoubles : SetWeightCall(sku, v)
    \/ \E sku \in Skus, v \in SetterDoubles : SetFileSizeMBCall(sku, v)
    \/ \E sku \in Skus, pct \in Percentages : ApplyDiscountCall(sku, pct)

SpecRecord == InitRecord /\ [][NextRecord]_vars

\* ----------------------------------------- the variant kind of the records
\* updateProduct with price 0 and the other arguments sentinels
KindUpdateArgs == {<<(<<>>), 0, -1>>}

InitKind == InitWith(NoFile)

NextKind ==
    \/ \E rec \in CtorRecords({PlainNumbers}) : AddProduct(rec)
    \/ \E sku \in Skus, a \in KindUpdateArgs : UpdateProduct(sku, a[1], a[2], a[3])
    \/ \E key \in SortKeys : SortBy(key)
    \/ \E sku \in Skus : SetPriceCall(sku, 0)
    \/ \E sku \in Skus : SetQuantityCall(sku, -1)
    \/ \E sku \in Skus : SetWeightCall(sku, -10000000)
    \/ \E sku \in Skus : SetFileSizeMBCall(sku, 5000000)
    \/ SaveToFile(TRUE)
    \/ \E u \in Garbage : LoadFromFile(TRUE, u)

SpecKind == InitKind /\ [][NextKind]_vars

\* ------------------------------------------------- the calls that only read
SkuC == <<"C">>
QuerySkus == {SkuA, SkuB, SkuC}

\* the records a caller adds: four of three skus, their names, categories,
\* quantities and values chosen apart
\*   Physical A "Ab" 2.0 x 5  "Xy"     Digital B "bC" 1.5 x 20 "y"
\*   Physical C "c"  0.0 x 10 "XY"     Digital A "AB" 2.5 x 0  "z"
QueryRecords ==
    {NewPhysical(SkuA, <<"A", "b">>, 20000000, 5, <<"X", "y">>, 5000000, <<"s">>),
     NewDigital(SkuB, <<"b", "C">>, 15000000, 20, <<"y">>, <<"l">>, 5000000, <<"t">>),
     NewPhysical(SkuC, <<"c">>, 0, 10, <<"X", "Y">>, 5000000, <<"s">>),
     NewDigital(SkuA, <<"A", "B">>, 25000000, 0, <<"z">>, <<"l">>, 5000000, <<"t">>)}

\* the terms handed to searchByName and searchByCategory
SearchTerms ==
    {<<>>, <<"B">>, <<"A", "B">>, <<"b", "c">>, <<"a", "b", "c">>, <<"Y">>,
     <<"x", "y">>}

\* the terms handed to searchByType
TypeTerms ==
    {<<"d", "i", "g", "i", "t", "a", "l">>, <<"D", "I", "G", "I", "T", "A", "L">>,
     DigitalTag, <<"d", "i", "g">>, <<"p", "h", "y", "s", "i", "c", "a", "l">>, <<>>}

\* the thresholds handed to displayLowStock
Thresholds == {5, 10, 21}

InitQuery == InitWith(NoFile)

NextQuery ==
    \/ \E rec \in QueryRecords : AddProduct(rec)
    \/ \E sku \in QuerySkus : RemoveProduct(sku)
    \/ SortBy("value")
    \/ \E sku \in QuerySkus : GetProductCall(sku)
    \/ \E sku \in QuerySkus : SkuExistsCall(sku)
    \/ GetProductCountCall
    \/ IsEmptyCall
    \/ GetTotalValueCall
    \/ \E sku \in QuerySkus : CalculateValueCall(sku)
    \/ \E term \in SearchTerms : SearchByNameCall(term)
    \/ \E term \in SearchTerms : SearchByCategoryCall(term)
    \/ \E term \in TypeTerms : SearchByTypeCall(term)
    \/ \E threshold \in Thresholds : DisplayLowStockCall(threshold)

SpecQuery == InitQuery /\ [][NextQuery]_vars

\* ------------------------------------------- every call that only reads
\* the records a caller adds: a Physical one named "N" and a Digital one
\* named "n"
ReadRecords ==
    {NewPhysical(SkuA, <<"N">>, 20000000, 5, <<"c">>, 5000000, <<"s">>),
     NewDigital(SkuB, <<"n">>, 20000000, 5, <<"c">>, <<"l">>, 5000000, <<"t">>)}

InitRead == InitWith(NoFile)

NextRead ==
    \/ \E rec \in ReadRecords : AddProduct(rec)
    \/ \E sku \in Skus : GetProductCall(sku)
    \/ \E sku \in Skus : SkuExistsCall(sku)
    \/ GetProductCountCall
    \/ IsEmptyCall
    \/ GetTotalValueCall
    \/ SearchByNameCall(<<"n">>)
    \/ SearchByCategoryCall(<<"C">>)
    \/ SearchByTypeCall(<<"d", "i", "g", "i", "t", "a", "l">>)
    \/ DisplayLowStockCall(10)
    \/ \E opens \in BOOLEAN : SaveToFile(opens)

SpecRead == InitRead /\ [][NextRead]_vars

\* ------------------------------------------------------------------ claims
\* the record products[i] points at
Rec(i) == heap[products[i]]

\* the skus of the records in the sequence
StoredSkus == {Rec(i).sku : i \in 1..Len(products)}

\* the records of the sequence, in order
RecordsOf(h, ps) == [i \in 1..Len(ps) |-> h[ps[i]]]

\* every pointer the store holds points at a live record
PointersLive ==
    /\ \A i \in 1..Len(products) : products[i] \in Live(heap)
    /\ \A s \in DOMAIN skuIndex : skuIndex[s] \in Live(heap)

\* C1: in every state reachable by addProduct, removeProduct, updateProduct,
\* sortBy*, clearAll and loadFromFile, no two records of the product sequence
\* have the same sku
C1_UniqueSku ==
    /\ PointersLive
    /\ \A i, j \in 1..Len(products) : i # j => Rec(i).sku # Rec(j).sku

\* a second add with a stored sku was refused while the store holds two records
C1_Witness ==
    /\ last.op = "addProduct"
    /\ last.ret = FALSE
    /\ Len(products) = 2

\* C2: addProduct returns false and leaves sequence and index unchanged when
\* the record is null or its sku is already stored; otherwise it returns true,
\* the record becomes the last element, the earlier elements keep their order
\* and getProduct(record.sku) returns that record
C2_AddStep(rec) ==
    LET p == NewAddr(heap)
    IN  IF rec.sku \in StoredSkus
        THEN /\ last'.ret = FALSE
             /\ products' = products
             /\ skuIndex' = skuIndex
        ELSE /\ last'.ret = TRUE
             /\ products' = Append(products, p)
             /\ heap'[p] = rec
             /\ getProduct(Store(heap', products', skuIndex'), rec.sku) = p

C2_AddNullStep ==
    /\ last'.ret = FALSE
    /\ products' = products
    /\ skuIndex' = skuIndex

C2_AddProduct ==
    [][last'.op = "addProduct" =>
          /\ \A rec \in CtorRecords({PlainNumbers, NegativeNumbers}) :
                AddProduct(rec) => C2_AddStep(rec)
          /\ AddNull => C2_AddNullStep]_vars

\* an add succeeded and put its record behind an earlier one
C2_Witness ==
    /\ last.op = "addProduct"
    /\ last.ret = TRUE
    /\ Len(products) = 2
    /\ products[2] = getProduct(Current, Rec(2).sku)

\* C3: in every reachable state, right after a sort included, the index and
\* the sequence agree: same skus, each key mapped to the record of the
\* sequence carrying it, skuExists(s) <=> getProduct(s) # null <=> s is
\* stored, and getProductCount() is the number of index entries
C3_IndexAgrees ==
    /\ PointersLive
    /\ DOMAIN skuIndex = StoredSkus
    /\ \A s \in DOMAIN skuIndex :
          /\ \E i \in 1..Len(products) : products[i] = skuIndex[s]
          /\ heap[skuIndex[s]].sku = s
    /\ \A s \in Skus \cup StoredSkus \cup {<<>>} :
          /\ skuExists(Current, s) <=> getProduct(Current, s) # NULL
          /\ skuExists(Current, s) <=> s \in StoredSkus
    /\ getProductCount(Current) = Cardinality(DOMAIN skuIndex)

\* a sort has just put the record of sku B before the record of sku A
C3_Witness ==
    /\ last.op = "sortBy"
    /\ Len(products) = 2
    /\ Rec(1).sku = SkuB
    /\ Rec(2).sku = SkuA

\* C4: removeProduct returns false and changes nothing when sku is not
\* indexed; otherwise it returns true, the sequence loses exactly the one
\* record of that sku (the others keep their order), the index loses sku and
\* the record is released
C4_RemoveStep(sku) ==
    IF sku \notin DOMAIN skuIndex
    THEN /\ last'.ret = FALSE
         /\ UNCHANGED <<heap, products, skuIndex>>
    ELSE /\ last'.ret = TRUE
         /\ \E i \in 1..Len(products) :
               /\ Rec(i).sku = sku
               /\ \A j \in 1..Len(products) : j # i => Rec(j).sku # sku
               /\ products' = SubSeq(products, 1, i - 1)
                                 \o SubSeq(products, i + 1, Len(products))
               /\ heap'[products[i]] = Free
               /\ \A a \in Addr \ {products[i]} : heap'[a] = heap[a]
         /\ sku \notin DOMAIN skuIndex'
         /\ DOMAIN skuIndex' = DOMAIN skuIndex \ {sku}
         /\ \A s \in DOMAIN skuIndex' : skuIndex'[s] = skuIndex[s]

C4_RemoveProduct ==
    [][last'.op = "removeProduct" =>
          \A sku \in Skus : RemoveProduct(sku) => C4_RemoveStep(sku)]_vars

\* a remove succeeded and left one record behind
C4_Witness ==
    /\ last.op = "removeProduct"
    /\ last.ret = TRUE
    /\ Len(products) = 1

\* C5: updateProduct returns false when sku is not stored; when it is stored
\* it returns true and sets the name iff the argument is non-empty, the price
\* iff the argument is >= 0, the quantity iff the argument is >= 0, a field
\* whose argument is the sentinel keeping its value
C5_UpdateStep(sku, name, price, quantity) ==
    IF sku \notin StoredSkus
    THEN last'.ret = FALSE
    ELSE /\ last'.ret = TRUE
         /\ \E i \in 1..Len(products) :
               /\ Rec(i).sku = sku
               /\ LET old == heap[products[i]]
                      new == heap'[products[i]]
                  IN  /\ new.name = IF name # <<>> THEN name ELSE old.name
                      /\ new.price = IF price >= 0 THEN price ELSE old.price
                      /\ new.quantity = IF quantity >= 0 THEN quantity ELSE old.quantity

C5_UpdateProduct ==
    [][last'.op = "updateProduct" =>
          \A sku \in Skus, a \in UpdateArgs :
             UpdateProduct(sku, a[1], a[2], a[3])
                => C5_UpdateStep(sku, a[1], a[2], a[3])]_vars

\* an update has renamed a record and set its price to 0, its quantity kept
C5_Witness ==
    /\ last.op = "updateProduct"
    /\ last.ret = TRUE
    /\ \E i \in 1..Len(products) :
          Rec(i).name = <<"m">> /\ Rec(i).price = 0 /\ Rec(i).quantity = 5

TextFields(r) ==
    IF IsPhysical(r) THEN {r.sku, r.name, r.category, r.supplier}
    ELSE {r.sku, r.name, r.category, r.downloadLink, r.licenseType}

HasComma(t) == \E k \in 1..Len(t) : t[k] = Comma

\* the comma-separated fields of a line
RECURSIVE FieldsOf(_)
FieldsOf(line) ==
    IF FindChar(line, Comma) = 0 THEN <<line>>
    ELSE <<SubSeq(line, 1, FindChar(line, Comma) - 1)>>
             \o FieldsOf(Drop(line, FindChar(line, Comma)))

\* a line carrying a recognised type tag
Tagged(line) ==
    /\ line # <<>>
    /\ line[1] # Hash
    /\ FieldsOf(line)[1] \in {PhysicalTag, DigitalTag}

\* the sku field of a tagged line: its second field, empty when it has none
SkuField(line) == IF Len(FieldsOf(line)) >= 2 THEN FieldsOf(line)[2] ELSE <<>>

\* the text t is a number throughout
Numeric(t, isDouble) ==
    /\ t # <<>>
    /\ NumToken(t, isDouble).ok
    /\ NumToken(t, isDouble).len = Len(t)

\* a tagged line with too few fields, or a non-numeric price or quantity
Malformed(line) ==
    /\ Tagged(line)
    /\ \/ Len(FieldsOf(line)) < (IF FieldsOf(line)[1] = PhysicalTag THEN 8 ELSE 9)
       \/ ~Numeric(FieldsOf(line)[4], TRUE)
       \/ ~Numeric(FieldsOf(line)[5], FALSE)

NotMalformed(line) == ~Malformed(line)

\* the last step was a loadFromFile that returned true
Loaded == last.op = "loadFromFile" /\ last.ret = TRUE

\* C7: for a store none of whose text fields contains a comma, a successful
\* saveToFile immediately followed by a successful loadFromFile leaves the
\* same records in the same order, each with the same type, sku, name, price,
\* quantity, category and variant-specific fields
C7_RoundTrip ==
    [][(/\ last.op = "saveToFile"
        /\ last.ret = TRUE
        /\ last'.op = "loadFromFile"
        /\ last'.ret = TRUE
        /\ \A i \in 1..Len(products) : \A t \in TextFields(Rec(i)) : ~HasComma(t))
       => RecordsOf(heap', products') = RecordsOf(heap, products)]_vars

\* a record whose price was 1.2345678 has been saved and loaded: the store
\* now holds it with the price 1.234568
C7_Witness ==
    /\ Loaded
    /\ file.exists
    /\ \E i \in 1..Len(products) : Rec(i).sku = SkuA /\ Rec(i).price = 12345680

\* C8: a loadFromFile that returns true leaves the store it would leave had
\* the file not held its malformed tagged lines (recognised tag, but too few
\* fields or a non-numeric price or quantity): such a line adds nothing and
\* the lines after it are still loaded
C8_MalformedSkipped ==
    [][(last'.op = "loadFromFile" /\ last'.ret = TRUE)
       => \A u \in Garbage :
             RecordsOf(heap', products') =
                LET st == loadFromFile(Current,
                              FileOf(SelectSeq(file.lines, NotMalformed)), TRUE, u).st
                IN  RecordsOf(st.heap, st.products)]_vars

\* the file held the single line Physical,B and the load left a record of
\* sku B in the store
C8_Witness ==
    /\ Loaded
    /\ file.lines = <<LineShort>>
    /\ Len(products) = 1
    /\ Rec(1).sku = SkuB

\* C9: after a loadFromFile that returned true the skus of the store are the
\* sku fields of the tagged lines of the file: the empty lines, the lines
\* starting with '#' and the lines whose leading field is neither Physical
\* nor Digital gave no record, and every tagged line, also one that follows
\* such a line, was processed
C9_SkippedLines ==
    Loaded =>
        /\ StoredSkus = {SkuField(file.lines[i]) :
                            i \in {k \in 1..Len(file.lines) : Tagged(file.lines[k])}}
        /\ Len(products) = Cardinality(StoredSkus)

\* a comment line, a line of an unknown tag and an empty line came before a
\* tagged line, whose record is the only one in the store
C9_Witness ==
    /\ Loaded
    /\ \E i, j \in 1..Len(file.lines) :
          /\ i < j
          /\ j < Len(file.lines)
          /\ {file.lines[i], file.lines[j]} \in
                 {{LineComment, LineUnknownTag}, {LineComment, <<>>},
                  {LineUnknownTag, <<>>}}
    /\ file.lines[Len(file.lines)] = LinePhysicalA
    /\ Len(products) = 1
    /\ Rec(1) = NewPhysical(SkuA, <<"n">>, 20000000, 5, <<"c">>, 5000000, <<"s">>)

\* the record loadFromFile decodes from a tagged line
Decoded(line, u) ==
    IF FieldsOf(line)[1] = PhysicalTag THEN PhysicalFromCSV(line, u)
    ELSE DigitalFromCSV(line, u)

\* the lines of the file that are decoded and carry the sku
LinesOfSku(sku) ==
    {k \in 1..Len(file.lines) : Tagged(file.lines[k]) /\ SkuField(file.lines[k]) = sku}

\* the least element of a non-empty set of numbers
Least(S) == CHOOSE k \in S : \A j \in S : k <= j

\* C10: when loadFromFile reads a file that exists and opens, it returns true
\* also when several decoded lines carry the same sku, and for each such sku
\* the store then holds exactly one record, the one decoded from the first of
\* these lines
C10_FirstWins ==
    [][\A u \in Garbage :
          (last'.op = "loadFromFile" /\ file.exists /\ LoadFromFile(TRUE, u))
          => /\ last'.ret = TRUE
             /\ \A k \in 1..Len(file.lines) :
                   (Tagged(file.lines[k])
                        /\ Cardinality(LinesOfSku(SkuField(file.lines[k]))) >= 2)
                   => /\ Cardinality({i \in 1..Len(products') :
                            heap'[products'[i]].sku = SkuField(file.lines[k])}) = 1
                      /\ \E i \in 1..Len(products') :
                            heap'[products'[i]] =
                               Decoded(file.lines[Least(LinesOfSku(SkuField(file.lines[k])))], u)]_vars

\* the file held a Physical line of sku A before a Digital line of sku A, and
\* the store holds the Physical record alone
C10_Witness ==
    /\ Loaded
    /\ \E i, j \in 1..Len(file.lines) :
          i < j /\ file.lines[i] = LinePhysicalA /\ file.lines[j] = LineDigitalA
    /\ LinesOfSku(SkuA) # {}
    /\ Cardinality({i \in 1..Len(products) : Rec(i).sku = SkuA}) = 1
    /\ \E i \in 1..Len(products) : Rec(i).sku = SkuA /\ IsPhysical(Rec(i))

\* the tagged lines of the file that are the first of their sku, in file order
FirstLines ==
    SelectSeq([k \in 1..Len(file.lines) |-> k],
              LAMBDA k : /\ Tagged(file.lines[k])
                         /\ k = Least(LinesOfSku(SkuField(file.lines[k]))))

\* C11: a loadFromFile of a file that exists and opens leaves in the store
\* exactly the records decoded from the lines of the file, in file order (of
\* several lines of one sku the first); whatever the store held before the
\* call is gone unless a line of the file decodes to it
C11_LoadReplaces ==
    [][\A u \in Garbage :
          (last'.op = "loadFromFile" /\ file.exists /\ LoadFromFile(TRUE, u))
          => /\ RecordsOf(heap', products') =
                   [i \in 1..Len(FirstLines) |-> Decoded(file.lines[FirstLines[i]], u)]
             /\ \A i \in 1..Len(products') :
                   \E k \in 1..Len(file.lines) :
                      /\ Tagged(file.lines[k])
                      /\ heap'[products'[i]] = Decoded(file.lines[k], u)]_vars

\* the load released two records, among them a Digital one of sku B that the
\* file does not hold, and the store now holds the two records of the file
C11_Witness ==
    /\ Loaded
    /\ last.released = 2
    /\ Len(products) = 2
    /\ Rec(1) = NewPhysical(SkuA, <<"n">>, 20000000, 5, <<"c">>, 5000000, <<"s">>)
    /\ Rec(2) = NewPhysical(SkuB, <<"n">>, 0, 0, <<"c">>, 0, <<"s">>)

\* C12: loadFromFile returns false exactly when the file is missing or cannot
\* be opened; when the file opens it returns true whatever its lines are
\* (none, comments only, malformed lines, unknown tags, repeated skus)
C12_LoadResult ==
    [][\A opens \in BOOLEAN, u \in Garbage :
          (last'.op = "loadFromFile" /\ LoadFromFile(opens, u))
          => last'.ret = (file.exists /\ opens)]_vars

\* a load returned true on a file of a malformed line, a line of an unknown
\* tag and no line that gives a record of its own
C12_Witness ==
    /\ Loaded
    /\ file.lines = <<LineUnknownTag, LineComment, LineBadPrice>>

\* C13: saveToFile returns true exactly when the file opens for writing, and
\* the file then holds nothing but header lines, each starting with '#',
\* followed by one encoded line per stored record in the order of the sequence
C13_SaveToFile ==
    [][\A opens \in BOOLEAN :
          (last'.op = "saveToFile" /\ SaveToFile(opens))
          => /\ last'.ret = opens
             /\ opens =>
                   /\ file'.exists
                   /\ \E h \in 1..Len(file'.lines) :
                         /\ Len(file'.lines) = h + Len(products)
                         /\ \A k \in 1..h : file'.lines[k][1] = Hash
                         /\ \A i \in 1..Len(products) :
                               file'.lines[h + i] = ToCSV(Rec(i))]_vars

\* a save wrote the record of sku B before the record of sku A, the order a
\* sort gave the sequence
C13_Witness ==
    /\ last.op = "saveToFile"
    /\ last.ret = TRUE
    /\ products = <<2, 1>>
    /\ Rec(1).sku = SkuB
    /\ Len(file.lines) = 4
    /\ LeadingField(file.lines[3]) = DigitalTag
    /\ LeadingField(file.lines[4]) = PhysicalTag

\* ---------------------------------------------------- claims about the sorts
\* the sequence ps over heap h is in the order the sort by key promises:
\* non-decreasing sku, name, price or quantity, non-increasing price*quantity
InOrder(h, ps, key) ==
    \A i, j \in 1..Len(ps) :
        i < j =>
            CASE key = "sku" -> ~StrLess(h[ps[j]].sku, h[ps[i]].sku)
              [] key = "name" -> ~StrLess(h[ps[j]].name, h[ps[i]].name)
              [] key = "price" -> h[ps[i]].price <= h[ps[j]].price
              [] key = "quantity" -> h[ps[i]].quantity <= h[ps[j]].quantity
              [] key = "value" ->
                    h[ps[i]].price * h[ps[i]].quantity >= h[ps[j]].price * h[ps[j]].quantity

\* qs holds the elements of ps, each as often
SameElements(ps, qs) ==
    /\ Len(ps) = Len(qs)
    /\ \A a \in Addr :
          Cardinality({i \in 1..Len(ps) : ps[i] = a})
              = Cardinality({i \in 1..Len(qs) : qs[i] = a})

\* C14: after sortBySku, sortByName, sortByPrice and sortByQuantity the
\* sequence is non-decreasing in that field, after sortByValue non-increasing
\* in price*quantity, and each sort only rearranges the sequence: the same
\* records, as many, no field of any record changed
C14_Sorted ==
    [][\A key \in SortKeys :
          (last'.op = "sortBy" /\ SortBy(key))
          => /\ InOrder(heap', products', key)
             /\ SameElements(products, products')
             /\ heap' = heap]_vars

\* a sort left two records of different value, the one of the higher value,
\* of sku B, before the one of sku A
C14_Witness ==
    /\ last.op = "sortBy"
    /\ Len(products) = 2
    /\ Rec(1).price * Rec(1).quantity > Rec(2).price * Rec(2).quantity
    /\ Rec(1).sku = SkuB
    /\ Rec(2).sku = SkuA

\* the sort keys of the records a and b are equal
SameKey(key, a, b) ==
    CASE key = "sku" -> a.sku = b.sku
      [] key = "name" -> a.name = b.name
      [] key = "price" -> a.price = b.price
      [] key = "quantity" -> a.quantity = b.quantity
      [] key = "value" -> a.price * a.quantity = b.price * b.quantity

\* the place of the pointer a in the sequence ps
PlaceOf(ps, a) == CHOOSE i \in 1..Len(ps) : ps[i] = a

\* C15: sortByName, sortByPrice, sortByQuantity and sortByValue are stable:
\* two records of equal sort key are after the sort in the relative order
\* they had before it
C15_Stable ==
    [][\A key \in {"name", "price", "quantity", "value"} :
          (last'.op = "sortBy" /\ SortBy(key))
          => \A i, j \in 1..Len(products) :
                (i < j /\ SameKey(key, Rec(i), Rec(j)))
                => PlaceOf(products', products[i]) < PlaceOf(products', products[j])]_vars

\* C16: clearAll leaves the sequence and the index empty, getProductCount()
\* 0, isEmpty() true and skuExists false for every sku; it deletes each
\* record of the sequence once, all of them live before the call, and no
\* other cell, so that on an empty store it releases nothing and changes
\* nothing
C16_ClearAll ==
    [][(last'.op = "clearAll" /\ ClearAll)
       => /\ products' = <<>>
          /\ DOMAIN skuIndex' = {}
          /\ getProductCount(Store(heap', products', skuIndex')) = 0
          /\ isEmpty(Store(heap', products', skuIndex'))
          /\ \A sku \in Skus \cup StoredSkus :
                ~skuExists(Store(heap', products', skuIndex'), sku)
          /\ \A i \in 1..Len(products) : products[i] \in Live(heap)
          /\ \A i, j \in 1..Len(products) : i # j => products[i] # products[j]
          /\ last'.released = Len(products)
          /\ \A a \in Addr :
                heap'[a] = IF \E i \in 1..Len(products) : products[i] = a
                           THEN Free ELSE heap[a]
          /\ products = <<>> => heap' = heap]_vars

\* clearAll was called on an empty store: it released nothing and the store
\* is empty
C16_Witness ==
    /\ last.op = "clearAll"
    /\ last.released = 0
    /\ products = <<>>
    /\ DOMAIN skuIndex = {}

\* ------------------------------------------------- claims about the records
\* what a constructor stores for the numeric argument v
Stored(v) == IF v < 0 THEN 0 ELSE v

\* the record the last addProduct appended
Appended == heap'[products'[Len(products')]]

\* C18: a Physical or Digital record constructed from numeric arguments of
\* any sign holds 0 for each negative argument (price, quantity, weight,
\* fileSizeMB) and the argument itself for each non-negative one, the text
\* arguments as given
C18_Constructors ==
    [][\A n \in MixedNumbers :
          /\ (/\ last'.op = "addProduct"
               /\ last'.ret = TRUE
               /\ AddProduct(NewPhysical(SkuA, <<"n">>, n.price, n.quantity, <<"c">>,
                                         n.size, <<"s">>)))
             => /\ Appended.type = PhysicalTag
                /\ Appended.sku = SkuA
                /\ Appended.name = <<"n">>
                /\ Appended.category = <<"c">>
                /\ Appended.supplier = <<"s">>
                /\ Appended.price = Stored(n.price)
                /\ Appended.quantity = Stored(n.quantity)
                /\ Appended.weight = Stored(n.size)
          /\ (/\ last'.op = "addProduct"
               /\ last'.ret = TRUE
               /\ AddProduct(NewDigital(SkuB, <<"n">>, n.price, n.quantity, <<"c">>,
                                        <<"l">>, n.size, <<"t">>)))
             => /\ Appended.type = DigitalTag
                /\ Appended.sku = SkuB
                /\ Appended.name = <<"n">>
                /\ Appended.category = <<"c">>
                /\ Appended.downloadLink = <<"l">>
                /\ Appended.licenseType = <<"t">>
                /\ Appended.price = Stored(n.price)
                /\ Appended.quantity = Stored(n.quantity)
                /\ Appended.fileSizeMB = Stored(n.size)]_vars

\* a Physical record constructed with price -5, quantity 5 and weight -0.5,
\* and a Digital one constructed with price 100, quantity -1 and size 0.5,
\* have just been added
C18_Witness ==
    /\ last.op = "addProduct"
    /\ last.ret = TRUE
    /\ Len(products) = 2
    /\ Rec(1) = [type |-> PhysicalTag, sku |-> SkuA, name |-> <<"n">>, price |-> 0,
                 quantity |-> 5, category |-> <<"c">>, weight |-> 0,
                 supplier |-> <<"s">>]
    /\ Rec(2) = [type |-> DigitalTag, sku |-> SkuB, name |-> <<"n">>,
                 price |-> 1000000000, quantity |-> 0, category |-> <<"c">>,
                 downloadLink |-> <<"l">>, fileSizeMB |-> 5000000,
                 licenseType |-> <<"t">>]

\* the effect a validating setter of the numeric field f must have when it is
\* called with v on the record of sku
SetterEffect(sku, f, v) ==
    IF v < 0
    THEN last'.ret = FALSE /\ heap' = heap
    ELSE /\ last'.ret = TRUE
         /\ heap'[skuIndex[sku]][f] = v
         /\ \A a \in Addr :
               heap'[a] = IF a = skuIndex[sku] THEN [heap[a] EXCEPT ![f] = v] ELSE heap[a]

\* C19: setPrice, setQuantity, setWeight and setFileSizeMB return false on a
\* negative argument and leave every field of the record as it was; on an
\* argument >= 0 they return true and the field holds exactly that value
C19_Setters ==
    [][/\ \A sku \in Skus, v \in SetterDoubles :
             (last'.op = "setPrice" /\ SetPriceCall(sku, v))
             => SetterEffect(sku, "price", v)
       /\ \A sku \in Skus, v \in SetterInts :
             (last'.op = "setQuantity" /\ SetQuantityCall(sku, v))
             => SetterEffect(sku, "quantity", v)
       /\ \A sku \in Skus, v \in SetterDoubles :
             (last'.op = "setWeight" /\ SetWeightCall(sku, v))
             => SetterEffect(sku, "weight", v)
       /\ \A sku \in Skus, v \in SetterDoubles :
             (last'.op = "setFileSizeMB" /\ SetFileSizeMBCall(sku, v))
             => SetterEffect(sku, "fileSizeMB", v)]_vars

\* setFileSizeMB has just refused a negative size on a record whose size, price
\* and quantity earlier setter calls had set to 2.5, 0 and 3
C19_Witness ==
    /\ last.op = "setFileSizeMB"
    /\ last.ret = FALSE
    /\ \E i \in 1..Len(products) :
          /\ Rec(i).sku = SkuB
          /\ Rec(i).fileSizeMB = 25000000
          /\ Rec(i).price = 0
          /\ Rec(i).quantity = 3

\* price * (1 - t/1000) for a discount of t tenths of a percent, exact for the
\* prices of up to four decimals
Discounted(price, t) == (price \div 1000) * (1000 - t)

\* a percentage in tenths of a percent
Tenths(percentage) == percentage \div (DblScale \div 10)

\* C20: applyDiscount(pct) leaves the record as it is and returns, for a
\* Physical record, price*(1 - pct/100) when 0 <= pct <= 100 and the price
\* otherwise, and for a Digital record price*(1 - min(pct + 5, 50)/100) when
\* 0 <= pct <= 100 and the price otherwise, the range being tested on pct
\* itself
C20_ApplyDiscount ==
    [][\A sku \in Skus, pct \in Percentages :
          (last'.op = "applyDiscount" /\ ApplyDiscountCall(sku, pct))
          => /\ heap' = heap
             /\ products' = products
             /\ skuIndex' = skuIndex
             /\ last'.price =
                   IF pct < 0 \/ pct > 100 * DblScale
                   THEN heap[skuIndex[sku]].price
                   ELSE IF heap[skuIndex[sku]].type = PhysicalTag
                   THEN Discounted(heap[skuIndex[sku]].price, Tenths(pct))
                   ELSE Discounted(heap[skuIndex[sku]].price,
                                   IF Tenths(pct) + 50 < 500 THEN Tenths(pct) + 50
                                   ELSE 500)]_vars

\* applyDiscount has just returned 85 for a Digital record of price 100
C20_Witness ==
    /\ last.op = "applyDiscount"
    /\ last.price = 850000000
    /\ \E i \in 1..Len(products) :
          Rec(i).type = DigitalTag /\ Rec(i).price = 1000000000
    /\ \A i \in 1..Len(products) : Rec(i).type = DigitalTag

\* C17: the variant kind of a record never changes: a sku stored before and
\* after a step of updateProduct, of a sort or of a setter has the same type
\* in both states, and a loadFromFile that follows a saveToFile gives back
\* each record with the sku and the type it was saved with
C17_KindFixed ==
    [][/\ last'.op \in {"updateProduct", "sortBy", "setPrice", "setQuantity",
                         "setWeight", "setFileSizeMB"}
          => \A i \in 1..Len(products), j \in 1..Len(products') :
                heap'[products'[j]].sku = Rec(i).sku
                => heap'[products'[j]].type = Rec(i).type
       /\ (/\ last.op = "saveToFile"
            /\ last.ret = TRUE
            /\ last'.op = "loadFromFile"
            /\ last'.ret = TRUE)
          => /\ Len(products') = Len(products)
             /\ \A i \in 1..Len(products) :
                   /\ heap'[products'[i]].sku = Rec(i).sku
                   /\ heap'[products'[i]].type = Rec(i).type]_vars

\* a Digital record of sku B and a Physical record of sku A, whose price an
\* update or a setter had set to 0, were sorted, saved in that order and
\* loaded back
C17_Witness ==
    /\ Loaded
    /\ last.released = 2
    /\ Len(products) = 2
    /\ Rec(1).sku = SkuB
    /\ Rec(1).type = DigitalTag
    /\ Rec(2).sku = SkuA
    /\ Rec(2).type = PhysicalTag
    /\ Rec(2).price = 0
    /\ Len(file.lines) = 4

\* ---------------------------------------------------- claims about the reads
\* the sum of price * quantity over the records the places S of the sequence
\* point at
RECURSIVE SumOver(_)
SumOver(S) ==
    IF S = {} THEN 0
    ELSE LET i == CHOOSE k \in S : TRUE
         IN  Rec(i).price * Rec(i).quantity + SumOver(S \ {i})

\* C21: in every reachable state calculateValue() of every stored record of
\* either variant is price * quantity, which is 0 when the price or the
\* quantity is 0, and getTotalValue() is the sum of price * quantity over the
\* records of the sequence, 0 for the empty store; what a call of either
\* returned is that value
C21_Values ==
    /\ \A i \in 1..Len(products) :
          /\ calculateValue(Rec(i)) = Rec(i).price * Rec(i).quantity
          /\ (Rec(i).price = 0 \/ Rec(i).quantity = 0) => calculateValue(Rec(i)) = 0
    /\ getTotalValue(Current) = SumOver(1..Len(products))
    /\ products = <<>> => getTotalValue(Current) = 0
    /\ last.op = "getTotalValue" => last.total = SumOver(1..Len(products))
    /\ last.op = "calculateValue" =>
          last.value = heap[skuIndex[last.sku]].price * heap[skuIndex[last.sku]].quantity

\* getTotalValue has just returned 40 for a store of three records worth 30,
\* 10 and 0, the last one for its price of 0
C21_Witness ==
    /\ last.op = "getTotalValue"
    /\ last.total = 400000000
    /\ Len(products) = 3
    /\ Rec(1).sku = SkuB /\ calculateValue(Rec(1)) = 300000000
    /\ Rec(2).sku = SkuA /\ calculateValue(Rec(2)) = 100000000
    /\ Rec(3).price = 0 /\ Rec(3).quantity = 10 /\ calculateValue(Rec(3)) = 0

\* the characters c and d are the same letter in either case, or the same
\* character
SameLetter(c, d) ==
    \/ c = d
    \/ \E k \in 1..26 : {c, d} = {UpperChars[k], LowerChars[k]}

\* the strings a and b are equal when the case of the letters is ignored
SameIgnoringCase(a, b) ==
    /\ Len(a) = Len(b)
    /\ \A k \in 1..Len(a) : SameLetter(a[k], b[k])

\* the type of the record at p equals the term of the last call but for case
TypeIsTerm(p) == SameIgnoringCase(heap[p].type, last.term)

\* C22: what searchByType(term) returned is the sequence of the stored records
\* whose type equals term as a whole when case is ignored, in the order of
\* the sequence: every Digital record and no Physical one for "digital",
\* "DIGITAL" and "Digital", none for the proper part "dig"
C22_SearchByType ==
    last.op = "searchByType" =>
        /\ last.results = SelectSeq(products, TypeIsTerm)
        /\ last.term \in {<<"d", "i", "g", "i", "t", "a", "l">>,
                          <<"D", "I", "G", "I", "T", "A", "L">>, DigitalTag}
              => last.results = SelectSeq(products, LAMBDA p : heap[p].type = DigitalTag)
        /\ last.term = <<"d", "i", "g">> => last.results = <<>>

\* searchByType("DIGITAL") on a store of a Physical, a Digital and a Physical
\* record has returned the Digital record alone
C22_Witness ==
    /\ last.op = "searchByType"
    /\ last.term = <<"D", "I", "G", "I", "T", "A", "L">>
    /\ Len(products) = 3
    /\ Rec(1).type = PhysicalTag
    /\ Rec(2).type = DigitalTag
    /\ Rec(3).type = PhysicalTag
    /\ last.results = <<products[2]>>

\* t occurs in s when the case of the letters is ignored
ContainsIgnoringCase(s, t) ==
    \E i \in 0..(Len(s) - Len(t)) : SameIgnoringCase(SubSeq(s, i + 1, i + Len(t)), t)

NameHasTerm(p) == ContainsIgnoringCase(heap[p].name, last.term)

CategoryHasTerm(p) == ContainsIgnoringCase(heap[p].category, last.term)

\* C23: what searchByName(term) and searchByCategory(term) returned is the
\* sequence of the stored records whose name, respectively category, contains
\* term when case is ignored, in the order of the sequence; it is the empty
\* sequence when no record matches
C23_SearchByText ==
    /\ last.op = "searchByName" =>
          /\ last.results = SelectSeq(products, NameHasTerm)
          /\ (\A i \in 1..Len(products) : ~NameHasTerm(products[i])) => last.results = <<>>
    /\ last.op = "searchByCategory" =>
          /\ last.results = SelectSeq(products, CategoryHasTerm)
          /\ (\A i \in 1..Len(products) : ~CategoryHasTerm(products[i]))
                => last.results = <<>>

\* searchByName("B") on the records named "bC", "Ab" and "c", which a sort put
\* in another order than the one they were added in, has returned the first
\* two in the order of the sequence
C23_Witness ==
    /\ last.op = "searchByName"
    /\ last.term = <<"B">>
    /\ products = <<2, 1, 3>>
    /\ Rec(1).name = <<"b", "C">>
    /\ Rec(2).name = <<"A", "b">>
    /\ Rec(3).name = <<"c">>
    /\ last.results = <<2, 1>>

\* the quantity of the record at p is below the threshold of the last call
BelowThreshold(p) == heap[p].quantity < last.threshold

\* C24: the records displayLowStock(t) displays are the stored records whose
\* quantity is strictly less than t, in the order of the sequence; a record
\* whose quantity equals t is not among them
C24_LowStock ==
    last.op = "displayLowStock" =>
        /\ last.shown = SelectSeq(products, BelowThreshold)
        /\ \A i \in 1..Len(products) :
              Rec(i).quantity = last.threshold
              => \A k \in 1..Len(last.shown) : last.shown[k] # products[i]
        /\ last.found = (\E i \in 1..Len(products) : Rec(i).quantity < last.threshold)

\* displayLowStock(10) on records of quantity 5, 20 and 10 has displayed the
\* record of quantity 5 alone
C24_Witness ==
    /\ last.op = "displayLowStock"
    /\ last.threshold = 10
    /\ Len(products) = 3
    /\ Rec(1).quantity = 5
    /\ Rec(2).quantity = 20
    /\ Rec(3).quantity = 10
    /\ last.shown = <<products[1]>>

\* ------------------------------------------------ claims about the ownership
\* C25: every record of the sequence has a non-empty sku in every state
\* reachable by loadFromFile, whatever the lines of the file are, the line
\* "Physical" that carries no sku text included
C25_NonEmptySku ==
    \A i \in 1..Len(products) : Rec(i).sku # <<>>

\* the file held the line Physical alone and the load left a record of the
\* empty sku, indexed under the empty key
C25_Witness ==
    /\ Loaded
    /\ file.lines = <<LineTagOnly>>
    /\ Len(products) = 1
    /\ Rec(1).sku = <<>>
    /\ skuExists(Current, <<>>)

\* C26: a loadFromFile whose file is missing or does not open returns false
\* and leaves the sequence, the index and every record as they were before
\* the call: nothing is cleared
C26_FailedLoadKeeps ==
    [][\A opens \in BOOLEAN, u \in Garbage :
          (/\ last'.op = "loadFromFile"
           /\ ~(file.exists /\ opens)
           /\ LoadFromFile(opens, u))
          => /\ last'.ret = FALSE
             /\ products' = products
             /\ skuIndex' = skuIndex
             /\ heap' = heap]_vars

\* a load has just failed on a store of two records, which are still held and
\* indexed
C26_Witness ==
    /\ last.op = "loadFromFile"
    /\ last.ret = FALSE
    /\ Len(products) = 2
    /\ DOMAIN skuIndex = {SkuA, SkuB}
    /\ \A i \in 1..2 : products[i] \in Live(heap) /\ skuIndex[Rec(i).sku] = products[i]

\* the pointers the sequence holds
Held == {products[i] : i \in 1..Len(products)}

\* C27: between the calls every allocated record is held by the store, and
\* by one place of the sequence only: a record fromCSV allocated during a
\* loadFromFile is in the sequence or released when the load returns, and no
\* record is released while the store holds it
C27_NoLeak ==
    /\ Live(heap) = Held
    /\ \A i, j \in 1..Len(products) : i # j => products[i] # products[j]

\* a load of the file whose second line of sku A was refused has returned:
\* three records are allocated, the sequence holds two of them and the third,
\* the Digital record of sku A, is held by nothing
C27_Witness ==
    /\ Loaded
    /\ Len(products) = 2
    /\ Cardinality(Live(heap)) = 3
    /\ \E a \in Live(heap) \ Held : heap[a].sku = SkuA /\ heap[a].type = DigitalTag

\* ---------------------------------------------------- claims about the frame
\* the record r with its name, price and quantity replaced by those of q
WithBasics(r, q) ==
    [r EXCEPT !.name = q.name, !.price = q.price, !.quantity = q.quantity]

\* C28: an updateProduct(sku, ...) step, whether it returns true or false,
\* leaves the sequence and its order, the index and the record count as they
\* were, leaves every record of another sku as it was, and changes of the
\* record of that sku at most the name, the price and the quantity: its sku,
\* category, type and variant-specific fields are as before
C28_UpdateFrame ==
    [][\A sku \in Skus, a \in UpdateArgs :
          (last'.op = "updateProduct" /\ UpdateProduct(sku, a[1], a[2], a[3]))
          => /\ products' = products
             /\ skuIndex' = skuIndex
             /\ getProductCount(Store(heap', products', skuIndex')) = Len(products)
             /\ \A p \in Addr :
                   IF p \in Held /\ heap[p].sku = sku
                   THEN /\ p \in Live(heap')
                        /\ WithBasics(heap'[p], heap[p]) = heap[p]
                   ELSE heap'[p] = heap[p]]_vars

\* an update has just renamed the Physical record of sku A and set its price
\* and its quantity to 0; the rest of that record and the whole Digital
\* record of sku B behind it are as they were constructed
C28_Witness ==
    /\ last.op = "updateProduct"
    /\ last.ret = TRUE
    /\ Len(products) = 2
    /\ Rec(1) = NewPhysical(SkuA, <<"m">>, 0, 0, <<"c">>, 5000000, <<"s">>)
    /\ Rec(2) = NewDigital(SkuB, <<"n">>, 20000000, 5, <<"c">>, <<"l">>, 5000000, <<"t">>)

\* the calls that only read the store
ReadOps ==
    {"getProduct", "skuExists", "getProductCount", "isEmpty", "getTotalValue",
     "searchByName", "searchByCategory", "searchByType", "displayLowStock",
     "saveToFile"}

\* C29: a step of getProduct, skuExists, getProductCount, isEmpty,
\* getTotalValue, searchByName, searchByCategory, searchByType,
\* displayLowStock or saveToFile, a saveToFile that fails included, leaves
\* the sequence, the index and every field of every record as they were
C29_ReadsKeep ==
    [][last'.op \in ReadOps
       => /\ products' = products
          /\ skuIndex' = skuIndex
          /\ heap' = heap]_vars

\* a saveToFile has just failed on a store of two records, the Physical one
\* still named "N"; the file is the one an earlier save wrote when the store
\* held one record
C29_Witness ==
    /\ last.op = "saveToFile"
    /\ last.ret = FALSE
    /\ Len(products) = 2
    /\ DOMAIN skuIndex = {SkuA, SkuB}
    /\ \E i \in 1..2 : Rec(i).name = <<"N">>
    /\ file.exists
    /\ Len(file.lines) = 3

\* ------------------------------------------------ claims about the discounts
\* the percentages 0, 2.5, 5, ... 100
DiscountGrid == {k * 25000000 : k \in 0..40}

====
